---- MODULE Spec2Model ----
(***************************************************************************)
(* BreedAI: the top-level screen controller (BreedAI), the simulated       *)
(* analysis screen (LoadingAnalysis), the results screen (BreedResults),   *)
(* the capture screens, the voice-command screen (VoiceCommands) and the   *)
(* batch queue (BatchProcessing), as state machines over React component   *)
(* state, pending browser timers and pending browser callbacks.            *)
(*                                                                         *)
(* A timer is a pending event.  On the analysis screen the delays of the   *)
(* code fix the firing order of two timers, and the later one carries a    *)
(* guard that keeps it behind the earlier one.  In the batch queue each    *)
(* pending timer carries the time left until it is due; timers due at the  *)
(* same time fire in either order.                                         *)
(***************************************************************************)
EXTENDS Integers, Sequences, FiniteSets, TLC

VARIABLES
  currentState,      \* BreedAI: the active mode
  capturedImage,     \* BreedAI: url of the image under analysis, or Null
  confirmedBreed,    \* BreedAI: the confirmed prediction, or Null
  toasts,            \* titles of the notifications raised and not yet dismissed
  predictions,       \* the predictions prop rendered by BreedResults (<<>> when not rendered)
  selectedBreed,     \* BreedResults: the highlighted prediction, or Null when unmounted
  currentStep,       \* LoadingAnalysis: index of the step shown
  progress,          \* LoadingAnalysis: progress shown, in 1/ProgressScale percent
  run,               \* LoadingAnalysis: the closure of the live effect run (runAnalysis)
  orphanTick,        \* LoadingAnalysis: a pending progress tick whose handle was overwritten
  completeTimers,    \* number of pending setTimeout(onComplete, 500) timers
  completeCalls,     \* history: calls of handleAnalysisComplete since analysis was last entered
  currentAngleIndex, \* MultiAngleCapture: index (from 0) of the angle being captured
  capturedImages,    \* MultiAngleCapture: the images captured so far, in order
  isSpeechSupported, \* VoiceCommands state
  isEnabled,         \* VoiceCommands state: the "Enable Voice Commands" switch
  isListening,       \* VoiceCommands state
  language,          \* VoiceCommands state: "en" or "hi"
  lastCommand,       \* VoiceCommands state: english phrase of the last executed command, or Null
  confidence,        \* VoiceCommands state: confidence of the last executed command, in percent
  sessions,          \* the SpeechRecognition objects started and not yet ended
  lastHeard,         \* history: the last recognition result delivered, or Null
  lastDispatched,    \* history: the action onCommand received for lastHeard, or Null
  batchItems,        \* BatchProcessing state: the queue
  isProcessing,      \* BatchProcessing state
  currentProcessingIndex, \* BatchProcessing state (from 0)
  batchTimers,       \* pending setTimeout(processNextItem, 100), in arming order
  invocations,       \* processNextItem calls waiting in their progress loop, in resuming order
  startCount,        \* history: per index, the processNextItem calls begun since Start Processing
  runs,              \* history: the times Start Processing was pressed on this screen
  busyActions,       \* history: the user actions on the batch screen since the last
                     \* Start Processing
  announced,         \* history: files.length in the last "Images Added" notification
  levelArg,          \* the confidence handed to getConfidenceLevel
  confidenceInfo,    \* what getConfidenceLevel returned for levelArg, or NullInfo before the call
  isStreamActive,    \* CameraCapture / MultiAngleCapture state
  streamRef,         \* streamRef.current: the stream retained, or Null
  cameraError,       \* the error state of the camera screen, or Null
  mediaRequests,     \* getUserMedia promises not yet settled, in calling order
  streamGranted,     \* history: the browser granted a stream to the screen now shown
  location,          \* GeolocationFeatures state: the stored location, or NullLocation
  isLoading,         \* GeolocationFeatures state
  error,             \* GeolocationFeatures state: the message shown, or Null
  selectedState,     \* GeolocationFeatures state: "" until a state is chosen
  mountEffect,       \* GeolocationFeatures: the effect of its mount has yet to run
  geolocation,       \* navigator.geolocation exists in the browser showing the screen
  positionRequests,  \* getCurrentLocation calls awaiting the position or the geocoding
  updateCalls,       \* history: executions of onLocationUpdate?.(...) on this screen
  lastCode           \* history: err.code of the last rejected position request

loadingVars == <<currentStep, progress, run, orphanTick>>
resultsVars == <<predictions, selectedBreed>>
angleVars == <<currentAngleIndex, capturedImages>>
appVars == <<currentState, capturedImage, confirmedBreed, toasts, resultsVars,
             loadingVars, completeTimers, completeCalls, angleVars>>

voiceState == <<isSpeechSupported, isEnabled, isListening, language, lastCommand, confidence>>
voiceVars == <<voiceState, sessions, lastHeard, lastDispatched>>

batchState == <<batchItems, isProcessing, currentProcessingIndex>>
batchVars == <<batchState, batchTimers, invocations, startCount, runs, busyActions, announced>>

levelVars == <<levelArg, confidenceInfo>>

cameraVars == <<isStreamActive, streamRef, cameraError, mediaRequests, streamGranted>>

\* the state no action of the analysis, results, voice and batch screens touches
geoState == <<location, isLoading, error, selectedState>>
geoVars == <<geoState, mountEffect, geolocation, positionRequests, updateCalls, lastCode>>

sideVars == <<levelVars, cameraVars, geoVars>>

vars == <<appVars, voiceVars, batchVars, sideVars>>

Null == "null"

\* null where the values are of another shape than a string
NullBreed == [name |-> Null, confidence |-> 0, region |-> Null]
NullResult == [breed |-> Null, confidence |-> 0]
NullText == <<>>
NullHeard == [transcript |-> NullText, confidence |-> 0]
NullInfo == [level |-> Null, label |-> Null, className |-> Null]
NullLocation == [latitude |-> 0 - 1, state |-> Null]

\* ---------------------------------------------------------------- bounds
Images == {"blob:1", "blob:2"}          \* object urls the browser may hand out
FracDen == 2                            \* elapsed time of a step is observed in 1/FracDen of its duration
MaxCaptured == 2                        \* images one multi-angle session holds at most
MaxSessions == 1                        \* SpeechRecognition objects alive at once
MaxItems == 3                           \* items the batch queue holds at most
MaxPending == 2                         \* processNextItem timers and calls alive at once
MaxCount == 2                           \* the history counts of calls stop here
MaxBusyActions == 1                     \* user actions on the batch screen after a Start Processing
MaxRuns == 1                            \* Start Processing pressed at most so often per visit
MaxRequests == 1                        \* getUserMedia promises pending at once
MaxPositionRequests == 2                \* getCurrentLocation calls not yet settled

\* ------------------------------------------------------------- BreedAI data
AppState == {"home", "capture", "multi-angle", "batch", "analytics", "location",
             "voice", "analyzing", "results", "database", "confirmed"}

mockPredictions ==
  << [name |-> "Gir",        confidence |-> 87, region |-> "Gujarat, Rajasthan"],
     [name |-> "Sahiwal",    confidence |-> 72, region |-> "Punjab, Haryana"],
     [name |-> "Red Sindhi", confidence |-> 64, region |-> "Maharashtra, Karnataka"] >>

\* the targets of the seven buttons of the home screen
HomeTargets == {"capture", "multi-angle", "batch", "analytics", "location", "voice", "database"}

\* ------------------------------------------------------ MultiAngleCapture data
requiredAngles == << "front", "side", "rear", "features" >>

\* requiredAngles[currentAngleIndex], the indices of the code starting at 0
currentAngle == requiredAngles[currentAngleIndex + 1]

\* the position counted from 1
findIndexFromOne(angleId) ==
  IF \E k \in 1..Len(requiredAngles) : requiredAngles[k] = angleId
    THEN CHOOSE k \in 1..Len(requiredAngles) :
            /\ requiredAngles[k] = angleId
            /\ \A j \in 1..(k - 1) : requiredAngles[j] # angleId
    ELSE 0 - 1

\* requiredAngles.findIndex(angle => angle.id === angleId)
findIndex(angleId) ==
  IF \E k \in 1..Len(requiredAngles) : requiredAngles[k] = angleId
    THEN (CHOOSE k \in 1..Len(requiredAngles) :
            /\ requiredAngles[k] = angleId
            /\ \A j \in 1..(k - 1) : requiredAngles[j] # angleId) - 1
    ELSE -1

\* prev.filter(img => img.id !== angleId)
RECURSIVE filterOut(_, _)
filterOut(imgs, angleId) ==
  IF imgs = <<>> THEN <<>>
  ELSE IF Head(imgs).id # angleId
         THEN <<Head(imgs)>> \o filterOut(Tail(imgs), angleId)
         ELSE filterOut(Tail(imgs), angleId)

\* ---------------------------------------------------------- VoiceCommands data
\* A string is the sequence of its UTF-16 code units: an ASCII character stands
\* for itself, a Devanagari code unit is written "uXXXX".
voiceCommands ==
  <<
     [id |-> "take_photo", action |-> "takePhoto",
      english |-> <<"t", "a", "k", "e", " ", "p", "h", "o", "t", "o">>,
      hindi |-> <<"u092B", "u094B", "u091F", "u094B", " ", "u0932", "u0947", "u0902">>],
     [id |-> "confirm_breed", action |-> "confirmBreed",
      english |-> <<"c", "o", "n", "f", "i", "r", "m", " ", "b", "r", "e", "e", "d">>,
      hindi |-> <<"u0928", "u0938", "u094D", "u0932", " ", "u0915", "u0940", " ", "u092A", "u0941", "u0937", "u094D", "u091F", "u093F">>],
     [id |-> "retake_photo", action |-> "retakePhoto",
      english |-> <<"r", "e", "t", "a", "k", "e", " ", "p", "h", "o", "t", "o">>,
      hindi |-> <<"u0926", "u094B", "u092C", "u093E", "u0930", "u093E", " ", "u092B", "u094B", "u091F", "u094B", " ", "u0932", "u0947", "u0902">>],
     [id |-> "need_correction", action |-> "needCorrection",
      english |-> <<"n", "e", "e", "d", " ", "c", "o", "r", "r", "e", "c", "t", "i", "o", "n">>,
      hindi |-> <<"u0938", "u0941", "u0927", "u093E", "u0930", " ", "u091A", "u093E", "u0939", "u093F", "u090F">>],
     [id |-> "start_camera", action |-> "startCamera",
      english |-> <<"s", "t", "a", "r", "t", " ", "c", "a", "m", "e", "r", "a">>,
      hindi |-> <<"u0915", "u0948", "u092E", "u0930", "u093E", " ", "u0936", "u0941", "u0930", "u0942", " ", "u0915", "u0930", "u0947", "u0902">>],
     [id |-> "go_back", action |-> "goBack",
      english |-> <<"g", "o", " ", "b", "a", "c", "k">>,
      hindi |-> <<"u0935", "u093E", "u092A", "u0938", " ", "u091C", "u093E", "u090F", "u0902">>],
     [id |-> "help", action |-> "showHelp",
      english |-> <<"h", "e", "l", "p">>,
      hindi |-> <<"u092E", "u0926", "u0926">>] >>

\* what the recogniser may deliver: every phrase of the table, and some others
OtherTranscripts ==
  { <<"T", "a", "k", "e", " ", "p", "h", "o", "t", "o">>,
    <<" ", "g", "o", " ", "b", "a", "c", "k", " ">>,
    <<"p", "l", "e", "a", "s", "e", " ", "h", "e", "l", "p", " ", "m", "e">>,
    <<"h", "e", "l", "l", "o">> }

Transcripts ==
  {voiceCommands[k].english : k \in 1..Len(voiceCommands)}
    \cup {voiceCommands[k].hindi : k \in 1..Len(voiceCommands)}
    \cup OtherTranscripts

\* result[0].confidence, in percent
Confidences == {70, 71, 100}

\* confidence > 0.7, in percent
ConfidenceThreshold == 70

\* String.prototype.toLowerCase on one code unit
lowerChar(c) ==
  CASE c = "T" -> "t"
    [] c = "G" -> "g"
    [] c = "H" -> "h"
    [] c = "P" -> "p"
    [] OTHER -> c

toLowerCase(str) == [k \in 1..Len(str) |-> lowerChar(str[k])]

\* String.prototype.trim
RECURSIVE trimStart(_)
trimStart(str) ==
  IF str # <<>> /\ Head(str) = " " THEN trimStart(Tail(str)) ELSE str

RECURSIVE trimEnd(_)
trimEnd(str) ==
  IF str # <<>> /\ str[Len(str)] = " " THEN trimEnd(SubSeq(str, 1, Len(str) - 1)) ELSE str

trim(str) == trimEnd(trimStart(str))

\* String.prototype.includes
includes(str, part) ==
  \E k \in 0..(Len(str) - Len(part)) : SubSeq(str, k + 1, k + Len(part)) = part

\* the predicate of voiceCommands.find in processCommand
matches(cmd, normalizedTranscript) ==
  \/ includes(normalizedTranscript, toLowerCase(cmd.english))
  \/ includes(normalizedTranscript, cmd.hindi)

\* voiceCommands.find(...): the index of the first matching command, 0 for undefined
matchedCommand(transcript) ==
  LET normalizedTranscript == trim(toLowerCase(transcript))
      hits == {k \in 1..Len(voiceCommands) : matches(voiceCommands[k], normalizedTranscript)}
  IN  IF hits = {} THEN 0 ELSE CHOOSE k \in hits : \A j \in hits : k <= j

\* matchedCommand over the transcripts of the model, computed once
matchTable == [t \in Transcripts |-> matchedCommand(t)]

\* the condition with the threshold itself let through
executesFromThreshold(transcript, conf) ==
  matchTable[transcript] # 0 /\ conf >= ConfidenceThreshold

\* the condition under which processCommand executes the command
executes(transcript, conf) ==
  matchTable[transcript] # 0 /\ conf > ConfidenceThreshold

\* ------------------------------------------------------- BatchProcessing data
mockBreedResults ==
  << [breed |-> "Gir",        confidence |-> 87],
     [breed |-> "Sahiwal",    confidence |-> 82],
     [breed |-> "Murrah",     confidence |-> 91],
     [breed |-> "Red Sindhi", confidence |-> 76],
     [breed |-> "Nili Ravi",  confidence |-> 89] >>

\* the files a file dialog may return: name and whether file.type is image/*
Files == { [name |-> "cow.jpg",   image |-> TRUE],
           [name |-> "bull.png",  image |-> TRUE],
           [name |-> "notes.txt", image |-> FALSE] }

FileLists == {<<f>> : f \in Files} \cup {<<f, g>> : f \in Files, g \in Files}

\* progress += 10 in the loop of processNextItem
ProgressIncrement == 10

\* setTimeout(processNextItem, 100) and the await of 150 ms in the loop, in ms
TimerDelay == 100
StepDelay == 150

\* time passes in steps that divide both delays
TimeUnit == StepDelay - TimerDelay

ProcessingError == "Failed to process image. Please try again."

\* the item addImagesToBatch builds for one image file (ids are unique and
\* serve only to find the item again, so an item is known by its position)
newItem(file) ==
  [fileName |-> file.name, status |-> "pending", progress |-> 0,
   result |-> NullResult, error |-> Null]

RECURSIVE newItems(_)
newItems(files) ==
  IF files = <<>> THEN <<>>
  ELSE IF Head(files).image
         THEN <<newItem(Head(files))>> \o newItems(Tail(files))
         ELSE newItems(Tail(files))

\* prev.map((item, index) => index === at ? change(item) : item), at from 0
setStatus(items, at, status) ==
  [k \in 1..Len(items) |-> IF k - 1 = at THEN [items[k] EXCEPT !.status = status] ELSE items[k]]

setProgress(items, at, value) ==
  [k \in 1..Len(items) |-> IF k - 1 = at THEN [items[k] EXCEPT !.progress = value] ELSE items[k]]

\* finishItem with the two arms of the result's conditional exchanged
finishItemExchanged(items, at, success, randomResult) ==
  [k \in 1..Len(items) |->
     IF k - 1 = at
       THEN [items[k] EXCEPT
               !.status = IF success THEN "completed" ELSE "error",
               !.result = IF success
                            THEN NullResult
                            ELSE [breed |-> randomResult.breed,
                                  confidence |-> randomResult.confidence],
               !.error = IF success THEN Null ELSE ProcessingError]
       ELSE items[k]]

\* the update that ends processNextItem
finishItem(items, at, success, randomResult) ==
  [k \in 1..Len(items) |->
     IF k - 1 = at
       THEN [items[k] EXCEPT
               !.status = IF success THEN "completed" ELSE "error",
               !.result = IF success
                            THEN [breed |-> randomResult.breed,
                                  confidence |-> randomResult.confidence]
                            ELSE NullResult,
               !.error = IF success THEN Null ELSE ProcessingError]
       ELSE items[k]]

pendingItems(items) == {k \in 1..Len(items) : items[k].status = "pending"}
completedItems(items) == {k \in 1..Len(items) : items[k].status = "completed"}

\* --------------------------------------------------------- LoadingAnalysis data
analysisSteps == << [id |-> 1, duration |-> 2000],
                    [id |-> 2, duration |-> 3000],
                    [id |-> 3, duration |-> 2000] >>

ProgressScale == 3

\* stepEnd = ((i + 1) / analysisSteps.length) * 100, in 1/ProgressScale percent
stepEnd(i) == ((i + 1) * 100 * ProgressScale) \div Len(analysisSteps)

NoRun == [pc |-> "none", i |-> 0, totalProgress |-> 0, stepStart |-> 0,
          frac |-> 0, animating |-> FALSE]

\* runAnalysis up to its first await: i = 0, animateProgress() has shown
\* stepStart and armed progressTimer, stepTimer is armed
FirstStep == [pc |-> "step", i |-> 0, totalProgress |-> 0, stepStart |-> 0,
              frac |-> 0, animating |-> TRUE]

NoTick == [end |-> 0, live |-> FALSE]

\* LoadingAnalysis is rendered only in mode analyzing with an image
LoadingMounted(s, img) == s = "analyzing" /\ img # Null

\* BreedResults is rendered only in mode results with an image
ResultsMounted(s, img) == s = "results" /\ img # Null

\* the percentages getConfidenceLevel is applied to
ConfidenceValues == 0..100

\* getConfidenceLevel with the first comparison strict
getConfidenceLevelStrict(value) ==
  IF value > 80
    THEN [level |-> "high", label |-> "High Confidence", className |-> "confidence-high"]
  ELSE IF value >= 60
    THEN [level |-> "medium", label |-> "Medium Confidence", className |-> "confidence-medium"]
  ELSE [level |-> "low", label |-> "Low Confidence", className |-> "confidence-low"]

getConfidenceLevel(value) ==
  IF value >= 80
    THEN [level |-> "high", label |-> "High Confidence", className |-> "confidence-high"]
  ELSE IF value >= 60
    THEN [level |-> "medium", label |-> "Medium Confidence", className |-> "confidence-medium"]
  ELSE [level |-> "low", label |-> "Low Confidence", className |-> "confidence-low"]

\* a results screen whose predictions depend on the image
RenderPredictionsPerImage(s, img) ==
  IF ~ResultsMounted(s, img) THEN <<>>
  ELSE IF img = "blob:2"
         THEN <<mockPredictions[2], mockPredictions[1], mockPredictions[3]>>
         ELSE mockPredictions

\* the predictions prop of the results screen
RenderPredictions(s, img) == IF ResultsMounted(s, img) THEN mockPredictions ELSE <<>>

(***************************************************************************)
(* A commit of BreedAI with state (s, img, breed): the child of the old    *)
(* mode is unmounted and the child of the new mode is mounted.  When       *)
(* LoadingAnalysis stays mounted across a render of BreedAI it receives a  *)
(* new handleAnalysisComplete closure, so its effect is cleaned up         *)
(* (stepTimer and progressTimer cleared) and run again.  The cleanup does  *)
(* not clear a pending completion timer.                                   *)
(***************************************************************************)
CommitLoading(s, img, rendered) ==
  LET was == LoadingMounted(currentState, capturedImage)
      now == LoadingMounted(s, img)
  IN  IF now /\ (~was \/ rendered)
        THEN /\ run' = FirstStep
             /\ currentStep' = 0
             /\ progress' = 0
             /\ orphanTick' = IF was THEN [orphanTick EXCEPT !.live = FALSE] ELSE NoTick
        ELSE IF was /\ ~now
        THEN /\ run' = NoRun
             /\ currentStep' = 0
             /\ progress' = 0
             /\ orphanTick' = NoTick
        ELSE UNCHANGED <<run, currentStep, progress, orphanTick>>

CommitResults(s, img) ==
  LET was == ResultsMounted(currentState, capturedImage)
      now == ResultsMounted(s, img)
  IN  /\ predictions' = RenderPredictions(s, img)
      /\ selectedBreed' = IF now /\ ~was THEN RenderPredictions(s, img)[1]
                          ELSE IF now THEN selectedBreed
                          ELSE NullBreed

\* MultiAngleCapture keeps its state only while the mode is multi-angle
CommitAngles(s) ==
  IF s = "multi-angle" /\ currentState = "multi-angle"
    THEN UNCHANGED angleVars
    ELSE /\ currentAngleIndex' = 0
         /\ capturedImages' = <<>>

\* the two screens with a camera: CameraCapture and MultiAngleCapture
CameraModes == {"capture", "multi-angle"}

CameraDenied(mode) ==
  IF mode = "capture"
    THEN "Camera access denied. Please allow camera permission or upload an image instead."
    ELSE "Camera access denied. Please allow camera permission or upload images instead."

\* videoRef.current: the <video> element is rendered only while isStreamActive
\* (and no captured preview is shown)
videoMounted == isStreamActive

\* a camera screen keeps its state only while it is shown; a getUserMedia
\* promise of a screen that is gone settles without effect
CommitCamera(s) ==
  IF s = currentState /\ s \in CameraModes
    THEN UNCHANGED cameraVars
    ELSE /\ isStreamActive' = FALSE
         /\ streamRef' = Null
         /\ cameraError' = Null
         /\ streamGranted' = FALSE
         /\ mediaRequests' = [k \in 1..Len(mediaRequests) |-> [orphan |-> TRUE]]

\* VoiceCommands keeps its state only while the mode is voice; on mount its
\* effect records whether the browser offers SpeechRecognition (it may or may
\* not).  Recognition objects are not stopped on unmount: they live on, their
\* setState calls lost.
CommitVoice(s) ==
  IF s = "voice" /\ currentState = "voice"
    THEN UNCHANGED <<voiceState, sessions>>
    ELSE /\ isSpeechSupported' \in (IF s = "voice" THEN BOOLEAN ELSE {FALSE})
         /\ isEnabled' = FALSE
         /\ isListening' = FALSE
         /\ language' = "en"
         /\ lastCommand' = NullText
         /\ confidence' = 0
         /\ sessions' = [k \in 1..Len(sessions) |-> [sessions[k] EXCEPT !.orphan = TRUE]]

\* GeolocationFeatures keeps its state only while the mode is location; its
\* mount leaves the auto-detect effect to run.  A getCurrentLocation call of
\* a screen that is gone goes on, its setState calls lost.
CommitGeo(s) ==
  IF s = "location" /\ currentState = "location"
    THEN UNCHANGED geoVars
    ELSE /\ location' = NullLocation
         /\ isLoading' = FALSE
         /\ error' = Null
         /\ selectedState' = ""
         /\ mountEffect' = (s = "location")
         /\ geolocation' \in (IF s = "location" THEN BOOLEAN ELSE {FALSE})
         /\ positionRequests' = [k \in 1..Len(positionRequests) |->
                                   [positionRequests[k] EXCEPT !.orphan = TRUE]]
         /\ updateCalls' = 0
         /\ lastCode' = lastCode

Commit(s, img, breed, newToasts) ==
  LET rendered == \/ s # currentState \/ img # capturedImage
                  \/ breed # confirmedBreed \/ newToasts # toasts
  IN  /\ currentState' = s
      /\ capturedImage' = img
      /\ confirmedBreed' = breed
      /\ toasts' = newToasts
      /\ CommitLoading(s, img, rendered)
      /\ CommitResults(s, img)

(***************************************************************************)
(* A render of BatchProcessing with state (items, processing, index): the  *)
(* body of the component arms a timer for the processNextItem of this      *)
(* render, which closes over index and items.  A pending timer or await   *)
(* carries the time left until it is due; those of one kind have the same  *)
(* delay, so they are due in the order in which they were armed.           *)
(***************************************************************************)
BatchRender(items, processing, index, timers, calls) ==
  /\ batchItems' = items
  /\ isProcessing' = processing
  /\ currentProcessingIndex' = index
  /\ invocations' = calls
  /\ batchTimers' = IF /\ processing
                       /\ index < Len(items)
                       /\ Len(timers) + Len(calls) < MaxPending
                      THEN Append(timers, [index |-> index, length |-> Len(items),
                                           left |-> TimerDelay])
                      ELSE timers

\* BatchProcessing keeps its state only while the mode is batch; the timers
\* and calls of an unmounted instance can change nothing any more
CommitBatch(s) ==
  IF s = "batch" /\ currentState = "batch"
    THEN UNCHANGED batchVars
    ELSE /\ batchItems' = <<>>
         /\ isProcessing' = FALSE
         /\ currentProcessingIndex' = 0
         /\ batchTimers' = <<>>
         /\ invocations' = <<>>
         /\ startCount' = <<>>
         /\ runs' = 0
         /\ busyActions' = 0
         /\ announced' = 0

\* a commit that may change the mode
Navigate(s, img, breed, newToasts) ==
  /\ Commit(s, img, breed, newToasts)
  /\ CommitAngles(s)
  /\ CommitVoice(s)
  /\ CommitBatch(s)
  /\ CommitCamera(s)
  /\ CommitGeo(s)
  /\ UNCHANGED levelVars
  /\ UNCHANGED <<lastHeard, lastDispatched>>

\* ------------------------------------------------------------ BreedAI actions
InitScreens ==
  /\ batchItems = <<>>
  /\ isProcessing = FALSE
  /\ currentProcessingIndex = 0
  /\ batchTimers = <<>>
  /\ invocations = <<>>
  /\ startCount = <<>>
  /\ runs = 0
  /\ busyActions = 0
  /\ announced = 0
  /\ isSpeechSupported = FALSE
  /\ isEnabled = FALSE
  /\ isListening = FALSE
  /\ language = "en"
  /\ lastCommand = NullText
  /\ confidence = 0
  /\ sessions = <<>>
  /\ lastHeard = NullHeard
  /\ lastDispatched = Null
  /\ currentState = "home"
  /\ capturedImage = Null
  /\ confirmedBreed = NullBreed
  /\ toasts = {}
  /\ predictions = <<>>
  /\ selectedBreed = NullBreed
  /\ currentStep = 0
  /\ progress = 0
  /\ run = NoRun
  /\ orphanTick = NoTick
  /\ completeTimers = 0
  /\ completeCalls = 0
  /\ currentAngleIndex = 0
  /\ capturedImages = <<>>
  /\ isStreamActive = FALSE
  /\ streamRef = Null
  /\ cameraError = Null
  /\ mediaRequests = <<>>
  /\ streamGranted = FALSE
  /\ location = NullLocation
  /\ isLoading = FALSE
  /\ error = Null
  /\ selectedState = ""
  /\ mountEffect = FALSE
  /\ geolocation = FALSE
  /\ positionRequests = <<>>
  /\ updateCalls = 0
  /\ lastCode = 0

Init ==
  /\ InitScreens
  /\ levelArg = 0
  /\ confidenceInfo = NullInfo

\* one of the seven buttons of the home screen
HomeButton(target) ==
  /\ currentState = "home"
  /\ Navigate(target, capturedImage, confirmedBreed, toasts)
  /\ UNCHANGED <<completeTimers, completeCalls>>

\* the header button, rendered in every mode but home
BackToHome ==
  /\ currentState # "home"
  /\ Navigate("home", capturedImage, confirmedBreed, toasts)
  /\ UNCHANGED <<completeTimers, completeCalls>>

handleImageCapture(imageUrl) ==
  /\ Navigate("analyzing", imageUrl, confirmedBreed, toasts)
  /\ completeCalls' = 0
  /\ UNCHANGED completeTimers

\* CameraCapture.handleFileUpload with an image file
CameraFileUpload(imageUrl) ==
  /\ currentState = "capture"
  /\ handleImageCapture(imageUrl)

\* handleAnalysisComplete with the mode's name misspelt
handleAnalysisCompleteMisspelt ==
  /\ Navigate("result", capturedImage, confirmedBreed, toasts)
  /\ completeCalls' = completeCalls + 1

handleAnalysisComplete ==
  /\ Navigate("results", capturedImage, confirmedBreed, toasts)
  /\ completeCalls' = completeCalls + 1

handleBreedConfirm(breed) ==
  /\ Navigate("confirmed", capturedImage, breed, toasts \cup {"Breed Confirmed!"})
  /\ UNCHANGED <<completeTimers, completeCalls>>

handleBreedCorrect ==
  /\ Navigate("capture", capturedImage, confirmedBreed, toasts \cup {"Feedback Recorded"})
  /\ UNCHANGED <<completeTimers, completeCalls>>

\* Analyze Another Animal forgetting the breed only
handleStartOverKeepingImage ==
  /\ currentState = "confirmed"
  /\ Navigate("home", capturedImage, NullBreed, toasts)
  /\ UNCHANGED <<completeTimers, completeCalls>>

handleStartOver ==
  /\ currentState = "confirmed"
  /\ Navigate("home", Null, NullBreed, toasts)
  /\ UNCHANGED <<completeTimers, completeCalls>>

\* the second button of the confirmed screen
ViewBreedDatabase ==
  /\ currentState = "confirmed"
  /\ Navigate("database", capturedImage, confirmedBreed, toasts)
  /\ UNCHANGED <<completeTimers, completeCalls>>

\* a notification leaves the toast store; BreedAI subscribes to the store
\* (useToast) and renders again
ToastDismiss ==
  /\ \E t \in toasts : Commit(currentState, capturedImage, confirmedBreed, toasts \ {t})
  /\ UNCHANGED <<completeTimers, completeCalls, angleVars, voiceVars, batchVars, sideVars>>

\* ------------------------------------------------------------ camera actions
cameraFrame == <<appVars, voiceVars, batchVars, levelVars, geoVars>>

\* Start Camera, offered while no stream is active: startCamera up to its await
startCamera ==
  /\ currentState \in CameraModes
  /\ ~isStreamActive
  /\ Len(mediaRequests) < MaxRequests
  /\ cameraError' = Null
  /\ mediaRequests' = Append(mediaRequests, [orphan |-> FALSE])
  /\ UNCHANGED <<isStreamActive, streamRef, streamGranted, cameraFrame>>

\* getUserMedia resolves with a stream: startCamera after its await
MediaGranted ==
  /\ mediaRequests # <<>>
  /\ mediaRequests' = Tail(mediaRequests)
  /\ IF Head(mediaRequests).orphan
       THEN UNCHANGED <<isStreamActive, streamRef, streamGranted>>
       ELSE /\ streamGranted' = TRUE
            /\ IF videoMounted
                 THEN /\ streamRef' = "stream"
                      /\ isStreamActive' = TRUE
                 ELSE UNCHANGED <<isStreamActive, streamRef>>
  /\ UNCHANGED <<cameraError, cameraFrame>>

\* getUserMedia rejects: the catch block of startCamera
MediaDenied ==
  /\ mediaRequests # <<>>
  /\ mediaRequests' = Tail(mediaRequests)
  /\ cameraError' = IF Head(mediaRequests).orphan THEN cameraError ELSE CameraDenied(currentState)
  /\ UNCHANGED <<isStreamActive, streamRef, streamGranted, cameraFrame>>

\* ------------------------------------------------------- BreedResults actions
\* a click on one of the "Other Possibilities"
SelectAlternative(k) ==
  /\ ResultsMounted(currentState, capturedImage)
  /\ k \in 2..Len(predictions)
  /\ selectedBreed' = predictions[k]
  /\ UNCHANGED <<currentState, capturedImage, confirmedBreed, toasts, predictions,
                 loadingVars, completeTimers, completeCalls, angleVars, voiceVars, batchVars, sideVars>>

\* a Confirm Breed button handing over the top prediction
ConfirmTopPrediction ==
  /\ ResultsMounted(currentState, capturedImage)
  /\ handleBreedConfirm(predictions[1])

ConfirmBreed ==
  /\ ResultsMounted(currentState, capturedImage)
  /\ handleBreedConfirm(selectedBreed)

NeedCorrection ==
  /\ ResultsMounted(currentState, capturedImage)
  /\ handleBreedCorrect

ResultsBack ==
  /\ ResultsMounted(currentState, capturedImage)
  /\ Navigate("capture", capturedImage, confirmedBreed, toasts)
  /\ UNCHANGED <<completeTimers, completeCalls>>

\* -------------------------------------------------- MultiAngleCapture actions
angleFrame == <<currentState, capturedImage, confirmedBreed, toasts, resultsVars,
                loadingVars, completeTimers, completeCalls, voiceVars, batchVars, sideVars>>

\* MultiAngleCapture.handleFileUpload with an image file
AngleFileUpload(imageUrl) ==
  /\ currentState = "multi-angle"
  /\ Len(capturedImages) < MaxCaptured
  /\ capturedImages' = Append(capturedImages, [id |-> currentAngle, url |-> imageUrl])
  /\ currentAngleIndex' = IF currentAngleIndex < Len(requiredAngles) - 1
                            THEN currentAngleIndex + 1
                            ELSE currentAngleIndex
  /\ UNCHANGED angleFrame

\* the remove button of a captured image
removeImage(angleId) ==
  /\ currentState = "multi-angle"
  /\ \E k \in 1..Len(capturedImages) : capturedImages[k].id = angleId
  /\ capturedImages' = filterOut(capturedImages, angleId)
  /\ currentAngleIndex' = findIndex(angleId)
  /\ UNCHANGED angleFrame

goToPreviousAngle ==
  /\ currentState = "multi-angle"
  /\ currentAngleIndex > 0
  /\ currentAngleIndex' = currentAngleIndex - 1
  /\ UNCHANGED <<capturedImages, angleFrame>>

goToNextAngle ==
  /\ currentState = "multi-angle"
  /\ currentAngleIndex < Len(requiredAngles) - 1
  /\ currentAngleIndex' = currentAngleIndex + 1
  /\ UNCHANGED <<capturedImages, angleFrame>>

\* BreedAI's onComplete of the multi-angle screen
onCompleteAngles(images) ==
  /\ Navigate("analyzing", IF Len(images) > 0 THEN images[1].url ELSE Null,
            confirmedBreed, toasts)
  /\ completeCalls' = 0
  /\ UNCHANGED completeTimers

handleComplete ==
  /\ currentState = "multi-angle"
  /\ Len(capturedImages) >= 2
  /\ onCompleteAngles(capturedImages)

\* the back arrow of the multi-angle screen
AngleBack ==
  /\ currentState = "multi-angle"
  /\ Navigate("home", capturedImage, confirmedBreed, toasts)
  /\ UNCHANGED <<completeTimers, completeCalls>>

\* ------------------------------------------------------ VoiceCommands actions
voiceFrame == <<currentState, capturedImage, confirmedBreed, toasts, resultsVars,
                loadingVars, completeTimers, completeCalls, angleVars, batchVars, sideVars>>

VoiceRendered == currentState = "voice" /\ isSpeechSupported

\* the "Enable Voice Commands" switch
setIsEnabled(checked) ==
  /\ VoiceRendered
  /\ checked # isEnabled
  /\ isEnabled' = checked
  /\ UNCHANGED <<isSpeechSupported, isListening, language, lastCommand, confidence,
                 sessions, lastHeard, lastDispatched, voiceFrame>>

toggleLanguage ==
  /\ VoiceRendered
  /\ isEnabled
  /\ language' = IF language = "en" THEN "hi" ELSE "en"
  /\ UNCHANGED <<isSpeechSupported, isEnabled, isListening, lastCommand, confidence,
                 sessions, lastHeard, lastDispatched, voiceFrame>>

\* builds a SpeechRecognition object and starts it; its handlers close over
\* the processCommand of this render
startListening ==
  /\ isSpeechSupported /\ isEnabled
  /\ Len(sessions) < MaxSessions
  /\ sessions' = Append(sessions, [phase |-> "starting", orphan |-> FALSE])
  /\ UNCHANGED isListening

\* the listening button: Stop Listening only clears the flag
toggleListening ==
  /\ VoiceRendered
  /\ isEnabled
  /\ IF isListening
       THEN isListening' = FALSE /\ UNCHANGED sessions
       ELSE startListening
  /\ UNCHANGED <<isSpeechSupported, isEnabled, language, lastCommand, confidence,
                 lastHeard, lastDispatched, voiceFrame>>

\* sessions without its k-th element
dropSession(k) == SubSeq(sessions, 1, k - 1) \o SubSeq(sessions, k + 1, Len(sessions))

\* recognition.onstart
RecognitionStart(k) ==
  /\ k \in 1..Len(sessions)
  /\ sessions[k].phase = "starting"
  /\ sessions' = [sessions EXCEPT ![k].phase = "listening"]
  /\ isListening' = IF sessions[k].orphan THEN isListening ELSE TRUE
  /\ UNCHANGED <<isSpeechSupported, isEnabled, language, lastCommand, confidence,
                 lastHeard, lastDispatched, voiceFrame>>

\* processCommand: the state updates are lost when the component that built
\* the session is gone; onCommand (BreedAI logs the action to the console and
\* nothing else) and the toast are not
processCommand(transcript, conf, orphan) ==
  LET m == matchTable[transcript]
  IN  IF executes(transcript, conf)
        THEN /\ lastCommand' = IF orphan THEN lastCommand ELSE voiceCommands[m].english
             /\ confidence' = IF orphan THEN confidence ELSE conf
             /\ lastDispatched' = voiceCommands[m].action
             /\ Commit(currentState, capturedImage, confirmedBreed,
                       toasts \cup {"Voice Command"})
        ELSE /\ lastDispatched' = Null
             /\ UNCHANGED <<lastCommand, confidence, currentState, capturedImage,
                            confirmedBreed, toasts, resultsVars, loadingVars>>

\* recognition.onresult
RecognitionResult(k, transcript, conf) ==
  /\ k \in 1..Len(sessions)
  /\ sessions[k].phase = "listening"
  /\ sessions' = [sessions EXCEPT ![k].phase = "resulted"]
  /\ processCommand(transcript, conf, sessions[k].orphan)
  /\ lastHeard' = [transcript |-> transcript, confidence |-> conf]
  /\ UNCHANGED <<isSpeechSupported, isEnabled, isListening, language,
                 completeTimers, completeCalls, angleVars, batchVars, sideVars>>

\* recognition.onerror
RecognitionError(k, errorName) ==
  /\ k \in 1..Len(sessions)
  /\ sessions[k].phase \in {"starting", "listening"}
  /\ sessions' = [sessions EXCEPT ![k].phase = "failed"]
  /\ isListening' = IF sessions[k].orphan THEN isListening ELSE FALSE
  /\ IF errorName = "not-allowed"
       THEN Commit(currentState, capturedImage, confirmedBreed,
                   toasts \cup {"Microphone Access Denied"})
       ELSE UNCHANGED <<currentState, capturedImage, confirmedBreed, toasts,
                        resultsVars, loadingVars>>
  /\ UNCHANGED <<isSpeechSupported, isEnabled, language, lastCommand, confidence,
                 lastHeard, lastDispatched,
                 completeTimers, completeCalls, angleVars, batchVars, sideVars>>

\* recognition.onend
RecognitionEnd(k) ==
  /\ k \in 1..Len(sessions)
  /\ sessions[k].phase \in {"listening", "resulted", "failed"}
  /\ sessions' = dropSession(k)
  /\ isListening' = IF sessions[k].orphan THEN isListening ELSE FALSE
  /\ UNCHANGED <<isSpeechSupported, isEnabled, language, lastCommand, confidence,
                 lastHeard, lastDispatched, voiceFrame>>

\* ---------------------------------------------------- BatchProcessing actions
batchFrame == <<completeTimers, completeCalls, angleVars, voiceVars, sideVars>>
batchRest == <<announced, batchFrame>>

\* a toast of the batch screen: the store changes and BreedAI renders
BatchToast(title) == Commit(currentState, capturedImage, confirmedBreed, toasts \cup {title})

NoToast == UNCHANGED <<currentState, capturedImage, confirmedBreed, toasts,
                       resultsVars, loadingVars>>

\* the queue is at work: a timer or a call of processNextItem is pending
AtWork == batchTimers # <<>> \/ invocations # <<>>

\* a user action on the batch screen, counted once a run has been started
UserAct ==
  /\ runs > 0 => busyActions < MaxBusyActions
  /\ busyActions' = IF runs > 0 THEN busyActions + 1 ELSE busyActions
  /\ UNCHANGED runs

addImagesToBatch(files) ==
  /\ currentState = "batch"
  /\ Len(batchItems) + Len(newItems(files)) <= MaxItems
  /\ BatchRender(batchItems \o newItems(files), isProcessing, currentProcessingIndex,
                 batchTimers, invocations)
  /\ BatchToast("Images Added")
  /\ announced' = Len(files)
  /\ UserAct
  /\ UNCHANGED <<startCount, batchFrame>>

\* the remove button of the item at position at (from 0)
removeItem(at) ==
  /\ currentState = "batch"
  /\ at \in 0..(Len(batchItems) - 1)
  /\ ~(isProcessing /\ at <= currentProcessingIndex)
  /\ BatchRender(SubSeq(batchItems, 1, at) \o SubSeq(batchItems, at + 2, Len(batchItems)),
                 isProcessing, currentProcessingIndex, batchTimers, invocations)
  /\ NoToast
  /\ UserAct
  /\ UNCHANGED <<startCount, batchRest>>

clearBatch ==
  /\ currentState = "batch"
  /\ Len(batchItems) > 0
  /\ BatchRender(<<>>, isProcessing, 0, batchTimers, invocations)
  /\ NoToast
  /\ UserAct
  /\ UNCHANGED <<startCount, batchRest>>

\* Start Processing: shown while not processing, disabled without a pending item
startBatchProcessing ==
  /\ currentState = "batch"
  /\ ~isProcessing
  /\ pendingItems(batchItems) # {}
  /\ runs < MaxRuns
  /\ IF Len(batchItems) = 0
       THEN /\ BatchToast("No Images")
            /\ UNCHANGED batchVars
       ELSE /\ BatchRender(batchItems, TRUE, 0, batchTimers, invocations)
            /\ NoToast
            /\ startCount' = <<>>
            /\ runs' = runs + 1
            /\ busyActions' = 0
  /\ UNCHANGED batchRest

pauseProcessing ==
  /\ currentState = "batch"
  /\ Len(batchItems) > 0
  /\ isProcessing
  /\ BatchRender(batchItems, FALSE, currentProcessingIndex, batchTimers, invocations)
  /\ NoToast
  /\ UserAct
  /\ UNCHANGED <<startCount, batchRest>>

exportResults ==
  /\ currentState = "batch"
  /\ completedItems(batchItems) # {}
  /\ BatchRender(batchItems, isProcessing, currentProcessingIndex, batchTimers, invocations)
  /\ BatchToast("Export Complete")
  /\ UserAct
  /\ UNCHANGED <<startCount, batchRest>>

\* the back arrow of the batch screen
BatchBack ==
  /\ currentState = "batch"
  /\ Navigate("home", capturedImage, confirmedBreed, toasts)
  /\ UNCHANGED <<completeTimers, completeCalls>>

\* one more call begun for index; the count stops at MaxCount
bump(count, index) ==
  IF index \in DOMAIN count
    THEN [count EXCEPT ![index] = IF @ < MaxCount THEN @ + 1 ELSE @]
    ELSE [k \in DOMAIN count \cup {index} |-> IF k = index THEN 1 ELSE count[k]]

\* TimeUnit ms pass with no timer and no await due
TimePasses ==
  /\ AtWork
  /\ \A k \in 1..Len(batchTimers) : batchTimers[k].left > 0
  /\ \A k \in 1..Len(invocations) : invocations[k].left > 0
  /\ batchTimers' = [k \in 1..Len(batchTimers) |->
                       [batchTimers[k] EXCEPT !.left = @ - TimeUnit]]
  /\ invocations' = [k \in 1..Len(invocations) |->
                       [invocations[k] EXCEPT !.left = @ - TimeUnit]]
  /\ NoToast
  /\ UNCHANGED <<batchState, startCount, runs, busyActions, batchRest>>

\* the oldest timer is due and fires: processNextItem of the render that armed
\* it, up to its first await
processNextItem ==
  /\ batchTimers # <<>>
  /\ Head(batchTimers).left = 0
  /\ LET closure == Head(batchTimers)
     IN  IF closure.index >= closure.length
           THEN /\ BatchRender(batchItems, FALSE, currentProcessingIndex,
                               Tail(batchTimers), invocations)
                /\ BatchToast("Batch Processing Complete")
                /\ UNCHANGED startCount
           ELSE /\ BatchRender(setStatus(batchItems, closure.index, "processing"),
                               isProcessing, currentProcessingIndex, Tail(batchTimers),
                               Append(invocations, [index |-> closure.index, progress |-> 0,
                                                    left |-> StepDelay]))
                /\ NoToast
                /\ startCount' = bump(startCount, closure.index)
  /\ UNCHANGED <<runs, busyActions, batchRest>>

\* the call that has waited longest resumes when its 150 ms are over: it
\* stores its progress and waits again, or (after progress 100) draws the
\* result, ends the item and advances the index
ProgressStep(success, randomResult) ==
  /\ invocations # <<>>
  /\ Head(invocations).left = 0
  /\ LET call == Head(invocations)
         shown == setProgress(batchItems, call.index, call.progress)
     IN  IF call.progress + ProgressIncrement <= 100
           THEN /\ success /\ randomResult = mockBreedResults[1]
                /\ BatchRender(shown, isProcessing, currentProcessingIndex, batchTimers,
                               Append(Tail(invocations),
                                      [call EXCEPT !.progress = @ + ProgressIncrement,
                                                   !.left = StepDelay]))
           ELSE BatchRender(finishItem(shown, call.index, success, randomResult),
                            isProcessing, currentProcessingIndex + 1, batchTimers,
                            Tail(invocations))
  /\ NoToast
  /\ UNCHANGED <<startCount, runs, busyActions, batchRest>>

\* ---------------------------------------------------- LoadingAnalysis actions
\* animateProgress, called by progressTimer: f/FracDen is the part of the
\* step's duration that has elapsed (FracDen: the whole duration or more)
ProgressTick ==
  /\ run.animating
  /\ \E f \in run.frac..FracDen :
       /\ run.pc = "final" => f = FracDen
       /\ progress' = run.stepStart + ((stepEnd(run.i) - run.stepStart) * f) \div FracDen
       /\ run' = IF f < FracDen
                   THEN [run EXCEPT !.frac = f]
                   ELSE [run EXCEPT !.frac = f, !.animating = FALSE,
                                    !.totalProgress = stepEnd(run.i)]
  /\ UNCHANGED <<currentState, capturedImage, confirmedBreed, toasts, resultsVars,
                 currentStep, orphanTick, completeTimers, completeCalls, angleVars, voiceVars, batchVars, sideVars>>

\* the tick of the previous step's animation, armed before stepTimer fired and
\* no longer reachable through progressTimer: it finds the duration elapsed
OrphanTickFire ==
  /\ orphanTick # NoTick
  /\ progress' = orphanTick.end
  /\ run' = IF orphanTick.live THEN [run EXCEPT !.totalProgress = orphanTick.end] ELSE run
  /\ orphanTick' = NoTick
  /\ UNCHANGED <<currentState, capturedImage, confirmedBreed, toasts, resultsVars,
                 currentStep, completeTimers, completeCalls, angleVars, voiceVars, batchVars, sideVars>>

\* StepTimerFire with the loop ending one step early
StepTimerFireEarly ==
  /\ run.pc = "step"
  /\ orphanTick = NoTick
  /\ completeTimers = 0
  /\ IF run.i + 2 < Len(analysisSteps)
       THEN /\ run' = [run EXCEPT !.i = run.i + 1, !.stepStart = run.totalProgress,
                                  !.frac = 0, !.animating = TRUE]
            /\ currentStep' = run.i + 1
            /\ progress' = run.totalProgress
            /\ orphanTick' = IF run.animating
                               THEN [end |-> stepEnd(run.i), live |-> TRUE]
                               ELSE NoTick
            /\ UNCHANGED completeTimers
       ELSE /\ run' = [run EXCEPT !.pc = "final"]
            /\ progress' = 100 * ProgressScale
            /\ completeTimers' = completeTimers + 1
            /\ UNCHANGED <<currentStep, orphanTick>>
  /\ UNCHANGED <<currentState, capturedImage, confirmedBreed, toasts, resultsVars,
                 completeCalls, angleVars, voiceVars, batchVars, sideVars>>

\* stepTimer resolves the await of step run.i.  A pending tick of an earlier
\* step (due within 50 ms) and a pending completion timer (due within 500 ms)
\* were armed before this stepTimer (2000 ms or more) and fire before it.
StepTimerFire ==
  /\ run.pc = "step"
  /\ orphanTick = NoTick
  /\ completeTimers = 0
  /\ IF run.i + 1 < Len(analysisSteps)
       THEN /\ run' = [run EXCEPT !.i = run.i + 1, !.stepStart = run.totalProgress,
                                  !.frac = 0, !.animating = TRUE]
            /\ currentStep' = run.i + 1
            /\ progress' = run.totalProgress
            /\ orphanTick' = IF run.animating
                               THEN [end |-> stepEnd(run.i), live |-> TRUE]
                               ELSE NoTick
            /\ UNCHANGED completeTimers
       ELSE /\ run' = [run EXCEPT !.pc = "final"]
            /\ progress' = 100 * ProgressScale
            /\ completeTimers' = completeTimers + 1
            /\ UNCHANGED <<currentStep, orphanTick>>
  /\ UNCHANGED <<currentState, capturedImage, confirmedBreed, toasts, resultsVars,
                 completeCalls, angleVars, voiceVars, batchVars, sideVars>>

\* setTimeout(onComplete, 500) fires; no cleanup ever clears this timer
CompleteTimerFire ==
  /\ completeTimers > 0
  /\ completeTimers' = completeTimers - 1
  /\ handleAnalysisComplete

\* ------------------------------------------------------------ specification
UserNavigates ==
  \/ \E t \in HomeTargets : HomeButton(t)
  \/ \E u \in Images : CameraFileUpload(u)
  \/ \E k \in 1..Len(mockPredictions) : SelectAlternative(k)
  \/ ConfirmBreed
  \/ NeedCorrection
  \/ ResultsBack
  \/ handleStartOver
  \/ ViewBreedDatabase
  \/ \E u \in Images : AngleFileUpload(u)
  \/ \E a \in {requiredAngles[k] : k \in 1..Len(requiredAngles)} : removeImage(a)
  \/ goToPreviousAngle
  \/ goToNextAngle
  \/ handleComplete
  \/ AngleBack

Timers ==
  \/ ProgressTick
  \/ OrphanTickFire
  \/ StepTimerFire
  \/ CompleteTimerFire
  \/ ToastDismiss

Next ==
  \/ UserNavigates
  \/ BackToHome
  \/ Timers

Spec == Init /\ [][Next]_vars

\* --------------------------------------------------------- location actions
Latitudes == {20, 25, 30}
ErrorCodes == {0, 1, 2, 3}     \* err.code; 0 stands for a failure without code 1, 2 or 3

\* the catch block with the texts of the codes 2 and 3 exchanged
LocationErrorMessageExchanged(code) ==
  IF code = 1 THEN "Location access denied. Please enable location permissions."
  ELSE IF code = 3 THEN "Location unavailable. Please check your GPS settings."
  ELSE IF code = 2 THEN "Location request timed out. Please try again."
  ELSE "Failed to get location"

\* the catch block of getCurrentLocation
LocationErrorMessage(code) ==
  IF code = 1 THEN "Location access denied. Please enable location permissions."
  ELSE IF code = 2 THEN "Location unavailable. Please check your GPS settings."
  ELSE IF code = 3 THEN "Location request timed out. Please try again."
  ELSE "Failed to get location"

\* mockData.state of reverseGeocode
reverseGeocode(lat) ==
  IF lat > 26 THEN "Punjab" ELSE IF lat > 23 THEN "Gujarat" ELSE "Maharashtra"

dropRequest(k) ==
  [j \in 1..(Len(positionRequests) - 1) |->
      IF j < k THEN positionRequests[j] ELSE positionRequests[j + 1]]

geoFrame == <<completeTimers, completeCalls, angleVars, voiceVars, batchVars,
              levelVars, cameraVars>>
geoQuiet == <<currentState, capturedImage, confirmedBreed, toasts, resultsVars, loadingVars>>

\* getCurrentLocation up to its first await
LocateBegin ==
  IF geolocation
    THEN /\ Len(positionRequests) < MaxPositionRequests
         /\ isLoading' = TRUE
         /\ error' = Null
         /\ positionRequests' = Append(positionRequests,
                [orphan |-> FALSE, phase |-> "position", latitude |-> 0 - 1])
    ELSE /\ error' = "Geolocation is not supported by this browser"
         /\ UNCHANGED <<isLoading, positionRequests>>

\* useEffect(() => { getCurrentLocation(); }, [getCurrentLocation]) after the mount
LocationMounted ==
  /\ currentState = "location"
  /\ mountEffect
  /\ mountEffect' = FALSE
  /\ LocateBegin
  /\ UNCHANGED <<location, selectedState, geolocation, updateCalls, lastCode, geoQuiet, geoFrame>>

\* Retry (shown with the error), Refresh and Get Location (disabled while loading)
getCurrentLocation ==
  /\ currentState = "location"
  /\ ~mountEffect
  /\ error # Null \/ ~isLoading
  /\ LocateBegin
  /\ UNCHANGED <<location, selectedState, mountEffect, geolocation, updateCalls, lastCode,
                 geoQuiet, geoFrame>>

\* the browser hands over a position; reverseGeocode starts its wait
PositionResolved(k, lat) ==
  /\ k \in 1..Len(positionRequests)
  /\ positionRequests[k].phase = "position"
  /\ positionRequests' = [positionRequests EXCEPT ![k].phase = "geocode", ![k].latitude = lat]
  /\ UNCHANGED <<geoState, mountEffect, geolocation, updateCalls, lastCode, geoQuiet, geoFrame>>

\* the wait of reverseGeocode ends: the rest of the try block, then finally
GeocodeDone(k) ==
  /\ k \in 1..Len(positionRequests)
  /\ positionRequests[k].phase = "geocode"
  /\ positionRequests' = dropRequest(k)
  /\ IF positionRequests[k].orphan
       THEN UNCHANGED <<location, isLoading, selectedState, updateCalls>>
       ELSE /\ updateCalls < MaxCount
            /\ selectedState' = reverseGeocode(positionRequests[k].latitude)
            /\ location' = [latitude |-> positionRequests[k].latitude,
                            state |-> reverseGeocode(positionRequests[k].latitude)]
            /\ updateCalls' = updateCalls + 1
            /\ isLoading' = FALSE
  /\ Commit(currentState, capturedImage, confirmedBreed, toasts \cup {"Location Updated"})
  /\ UNCHANGED <<error, mountEffect, geolocation, lastCode, geoFrame>>

\* the position promise rejects: the catch block, then finally
PositionRejected(k, code) ==
  /\ k \in 1..Len(positionRequests)
  /\ positionRequests[k].phase = "position"
  /\ positionRequests' = dropRequest(k)
  /\ lastCode' = code
  /\ IF positionRequests[k].orphan
       THEN UNCHANGED <<error, isLoading>>
       ELSE /\ error' = LocationErrorMessage(code)
            /\ isLoading' = FALSE
  /\ Commit(currentState, capturedImage, confirmedBreed, toasts \cup {"Location Error"})
  /\ UNCHANGED <<location, selectedState, mountEffect, geolocation, updateCalls, geoFrame>>

\* the state <select> of the manual form
SelectState(st) ==
  /\ currentState = "location"
  /\ ~mountEffect
  /\ selectedState' = st
  /\ UNCHANGED <<location, isLoading, error, mountEffect, geolocation, positionRequests,
                 updateCalls, lastCode, geoQuiet, geoFrame>>

\* Set Location, disabled until a place is typed and a state chosen
handleManualLocationSubmit ==
  /\ currentState = "location"
  /\ ~mountEffect
  /\ selectedState # ""
  /\ updateCalls < MaxCount
  /\ location' = [latitude |-> 0, state |-> selectedState]
  /\ updateCalls' = updateCalls + 1
  /\ Commit(currentState, capturedImage, confirmedBreed, toasts \cup {"Manual Location Set"})
  /\ UNCHANGED <<isLoading, error, selectedState, mountEffect, geolocation, positionRequests,
                 lastCode, geoFrame>>

\* the effect of a mount runs before the user can press anything
BackToHomeMounted == ~mountEffect /\ BackToHome

\* the home screen and the location screen
GeoNext ==
  \/ \E t \in HomeTargets : HomeButton(t)
  \/ BackToHomeMounted
  \/ ToastDismiss
  \/ LocationMounted
  \/ getCurrentLocation
  \/ \E k \in 1..MaxPositionRequests, lat \in Latitudes : PositionResolved(k, lat)
  \/ \E k \in 1..MaxPositionRequests : GeocodeDone(k)
  \/ \E k \in 1..MaxPositionRequests, code \in ErrorCodes : PositionRejected(k, code)
  \/ \E st \in {reverseGeocode(lat) : lat \in Latitudes} : SelectState(st)
  \/ handleManualLocationSubmit

GeoSpec == Init /\ [][GeoNext]_vars

\* the application with the cameras of its two capture screens
CameraNext ==
  \/ Next
  \/ startCamera
  \/ MediaGranted
  \/ MediaDenied

CameraSpec == Init /\ [][CameraNext]_vars

\* The user never leaves the analysis screen (its only control is Back to
\* Home), and every armed timer fires: a browser runs a due timer.
BackToHomeElsewhere ==
  /\ currentState # "analyzing"
  /\ BackToHome

FairNext ==
  \/ UserNavigates
  \/ BackToHomeElsewhere
  \/ Timers

FairSpec ==
  /\ Init
  /\ [][FairNext]_vars
  /\ WF_vars(ProgressTick)
  /\ WF_vars(OrphanTickFire)
  /\ WF_vars(StepTimerFire)
  /\ WF_vars(CompleteTimerFire)

\* the voice screen: the user moves between home and the voice screen only
VoiceUser ==
  \/ HomeButton("voice")
  \/ \E b \in BOOLEAN : setIsEnabled(b)
  \/ toggleLanguage
  \/ toggleListening

Recognition ==
  \/ \E k \in 1..MaxSessions : RecognitionStart(k)
  \/ \E k \in 1..MaxSessions, t \in Transcripts, c \in Confidences : RecognitionResult(k, t, c)
  \/ \E k \in 1..MaxSessions, e \in {"not-allowed", "no-speech"} : RecognitionError(k, e)
  \/ \E k \in 1..MaxSessions : RecognitionEnd(k)

VoiceNext ==
  \/ VoiceUser
  \/ BackToHome
  \/ Recognition

VoiceSpec == Init /\ [][VoiceNext]_vars

\* getConfidenceLevel applied to any percentage
LevelInit ==
  /\ InitScreens
  /\ levelArg \in ConfidenceValues
  /\ confidenceInfo = NullInfo

CallGetConfidenceLevel ==
  /\ confidenceInfo = NullInfo
  /\ confidenceInfo' = getConfidenceLevel(levelArg)
  /\ UNCHANGED <<levelArg, appVars, voiceVars, batchVars, cameraVars, geoVars>>

LevelNext == CallGetConfidenceLevel

LevelSpec == LevelInit /\ [][LevelNext]_vars

\* the batch screen: the user moves between home and the batch screen only
BatchUser ==
  \/ HomeButton("batch")
  \/ \E files \in FileLists : addImagesToBatch(files)
  \/ \E at \in 0..(MaxItems - 1) : removeItem(at)
  \/ clearBatch
  \/ startBatchProcessing
  \/ pauseProcessing
  \/ exportResults
  \/ BatchBack

BatchTimers ==
  \/ TimePasses
  \/ processNextItem
  \/ \E success \in BOOLEAN, k \in 1..Len(mockBreedResults) :
       ProgressStep(success, mockBreedResults[k])

BatchNext ==
  \/ BatchUser
  \/ BackToHome
  \/ BatchTimers

BatchSpec == Init /\ [][BatchNext]_vars

\* ==================================================================== claims

\* C1: in every reachable state currentState is one of the eleven named
\* modes, and the initial mode is home.
C1_ModeIsNamed ==
  /\ currentState = "home"
  /\ [](currentState \in {"home", "capture", "multi-angle", "batch", "analytics",
                          "location", "voice", "analyzing", "results", "database",
                          "confirmed"})

\* the last mode of the longest path (capture, analysis, results, confirmation)
C1_Witness == currentState = "confirmed" /\ confirmedBreed # NullBreed

\* C2: the mode becomes results only from mode analyzing: an analysis the user
\* has left (Back to Home) never changes the mode to results.
C2_ResultsOnlyFromAnalyzing ==
  [][(currentState # "results" /\ currentState' = "results") => currentState = "analyzing"]_vars

\* C3: with no navigation away from the analysis screen, an analysis that was
\* entered runs its three steps to the end, calls the completion callback
\* exactly once, and the mode becomes results.
C3_AnalysisCompletes ==
  /\ [](completeCalls <= 1)
  /\ [][/\ currentStep' \in {currentStep, currentStep + 1, 0}
        /\ completeTimers' > completeTimers
             => (run.pc = "step" /\ run.i = Len(analysisSteps) - 1 /\ run'.pc = "final")
        /\ completeCalls' > completeCalls => completeTimers' < completeTimers]_vars
  /\ (currentState = "analyzing") ~> (currentState = "results" /\ completeCalls = 1)

C3_Witness == currentState = "results" /\ completeCalls = 1 /\ capturedImage = "blob:1"

\* C4: whatever image was captured and however analysis was entered, the
\* predictions shown in mode results are Gir 87, Sahiwal 72, Red Sindhi 64, in
\* that order.
C4_FixedPredictions ==
  currentState = "results" =>
    [k \in 1..Len(predictions) |-> <<predictions[k].name, predictions[k].confidence>>]
      = << <<"Gir", 87>>, <<"Sahiwal", 72>>, <<"Red Sindhi", 64>> >>

C4_Witness == currentState = "results" /\ capturedImage = "blob:2" /\ Len(predictions) = 3

\* C5: at most one item of the batch queue has status processing.
C5_AtMostOneProcessing ==
  Cardinality({k \in 1..Len(batchItems) : batchItems[k].status = "processing"}) <= 1

\* C6: in a batch run the user does not disturb, processNextItem is begun
\* once per item and currentProcessingIndex never passes the end of the queue.
C6_StartedOncePerItem ==
  busyActions = 0 =>
    /\ \A i \in DOMAIN startCount : startCount[i] <= 1
    /\ currentProcessingIndex <= Len(batchItems)

\* C7: a batch run the user does not disturb ends with every item completed
\* or error, isProcessing false and the completion notification raised.
C7_RunTerminates ==
  (startCount # <<>> /\ busyActions = 0 /\ ~AtWork) =>
    /\ \A k \in 1..Len(batchItems) : batchItems[k].status \in {"completed", "error"}
    /\ ~isProcessing
    /\ "Batch Processing Complete" \in toasts

\* C8: every completed item carries one of the five fixed (breed, confidence)
\* pairs.
C8_CompletedHasFixedPair ==
  \A k \in 1..Len(batchItems) :
    batchItems[k].status = "completed" =>
      /\ batchItems[k].result # NullResult
      /\ <<batchItems[k].result.breed, batchItems[k].result.confidence>>
           \in { <<"Gir", 87>>, <<"Sahiwal", 82>>, <<"Murrah", 91>>,
                 <<"Red Sindhi", 76>>, <<"Nili Ravi", 89>> }

C8_Witness ==
  \E k \in 1..Len(batchItems) :
    /\ batchItems[k].status = "completed"
    /\ batchItems[k].fileName = "bull.png"
    /\ batchItems[k].result # NullResult
    /\ batchItems[k].result.breed = "Nili Ravi"

\* C9: a transcript equal to the English or the Hindi phrase of a command,
\* recognised with confidence above 0.7, invokes onCommand with the action of
\* that command.
C9_PhraseInvokesItsAction ==
  lastHeard # NullHeard =>
    \A k \in 1..Len(voiceCommands) :
      (/\ lastHeard.transcript \in {voiceCommands[k].english, voiceCommands[k].hindi}
       /\ lastHeard.confidence > 70)
        => lastDispatched = voiceCommands[k].action

\* a recognition result is delivered in this step
ResultStep ==
  \E k \in 1..Len(sessions) :
    /\ Len(sessions') = Len(sessions)
    /\ sessions[k].phase = "listening"
    /\ sessions'[k].phase = "resulted"

\* C10: when "go back" is recognised on the voice screen the mode stops being
\* voice.
C10_GoBackLeavesVoice ==
  [][(ResultStep /\ lastDispatched' = "goBack" /\ currentState = "voice")
       => currentState' # "voice"]_vars

\* C11: for every percentage from 0 to 100 getConfidenceLevel returns high
\* exactly from 80 up, medium exactly from 60 to 79 and low exactly below 60.
C11_LevelsPartition ==
  confidenceInfo # NullInfo =>
    /\ confidenceInfo.level \in {"high", "medium", "low"}
    /\ confidenceInfo.level = "high" <=> levelArg >= 80
    /\ confidenceInfo.level = "medium" <=> (levelArg >= 60 /\ levelArg <= 79)
    /\ confidenceInfo.level = "low" <=> levelArg < 60

C11_Witness == levelArg = 80 /\ confidenceInfo.level = "high"

\* C12: onComplete is invoked only when images of at least two distinct
\* required angles have been captured.
C12_TwoDistinctAngles ==
  [][(currentState = "multi-angle" /\ currentState' = "analyzing")
       => Cardinality({capturedImages[k].id : k \in 1..Len(capturedImages)}) >= 2]_vars

\* C13: when Start Camera was pressed on an idle capture screen and the
\* browser granted a stream, isStreamActive is true and the stream is retained
\* in streamRef.
C13_GrantedStreamIsShown == streamGranted => (isStreamActive /\ streamRef # Null)

C15_QueueGrowsByAnnounced ==
  [][(currentState' = "batch" /\ (announced' # announced \/ Len(batchItems') > Len(batchItems))) =>
       /\ Len(batchItems') = Len(batchItems) + announced'
       /\ SubSeq(batchItems', 1, Len(batchItems)) = batchItems
       /\ \A k \in (Len(batchItems) + 1)..Len(batchItems') :
            batchItems'[k].status = "pending" /\ batchItems'[k].progress = 0]_vars

\* C16: while the queue is not processing (before Start Processing, after
\* Pause, after the run) no step but Start Processing itself turns a pending
\* item into a processing one.
C16_PausedQueueRests ==
  [][(currentState = "batch" /\ ~isProcessing /\ ~isProcessing'
      /\ Len(batchItems') = Len(batchItems)) =>
       \A k \in 1..Len(batchItems) :
          ~(batchItems[k].status = "pending" /\ batchItems'[k].status = "processing")]_vars

C18_OnlyConfidentMatchesRun ==
  [][ResultStep =>
       LET named == matchTable[lastHeard'.transcript] # 0
       IN  ~(named /\ lastHeard'.confidence > 70) =>
             /\ lastDispatched' = Null
             /\ lastCommand' = lastCommand
             /\ confidence' = confidence]_vars

\* after a command was executed, the phrase of a command is heard with
\* confidence 0.7 exactly and nothing is executed
C18_Witness ==
  /\ currentState = "voice"
  /\ lastHeard.transcript = voiceCommands[1].english
  /\ lastHeard.confidence = 70
  /\ lastDispatched = Null
  /\ lastCommand # NullText
  /\ confidence > 70

\* C19: while the voice screen is not listening, a result of a recognition
\* session it started itself dispatches nothing to onCommand.  (A session
\* of this screen is listening while isListening is false only after Stop
\* Listening.)
C19_StoppedHearsNothing ==
  [][(/\ currentState = "voice"
      /\ ~isListening
      /\ \E k \in 1..Len(sessions) :
           /\ Len(sessions') = Len(sessions)
           /\ ~sessions[k].orphan
           /\ sessions[k].phase = "listening"
           /\ sessions'[k].phase = "resulted")
       => lastDispatched' = Null]_vars

\* C20: Back to Home leads to home with capturedImage and confirmedBreed as
\* they were; Analyze Another Animal leads to home with both reset to null.
C20_HomeKeepsOrResets ==
  [][/\ BackToHome => /\ currentState # "home"
                      /\ currentState' = "home"
                      /\ capturedImage' = capturedImage
                      /\ confirmedBreed' = confirmedBreed
     /\ handleStartOver => /\ currentState' = "home"
                           /\ capturedImage' = Null
                           /\ confirmedBreed' = NullBreed]_vars

\* a breed was confirmed and Analyze Another Animal reset it; the image
\* captured afterwards is still there after Back to Home
C20_Witness ==
  /\ currentState = "home"
  /\ "Breed Confirmed!" \in toasts
  /\ confirmedBreed = NullBreed
  /\ capturedImage # Null

\* C21: in mode confirmed confirmedBreed is one of the predictions.  The
\* mode is entered from the results screen only, with the breed selected
\* there, and the breed stays while the mode does; the selection is the top
\* prediction when the results screen appears, and changes on that screen
\* only to one of the other possibilities (the one clicked).
C21_ConfirmedIsSelected ==
  /\ [](currentState = "confirmed" =>
          /\ confirmedBreed # NullBreed
          /\ \E k \in 1..Len(mockPredictions) : confirmedBreed = mockPredictions[k])
  /\ [][(currentState # "confirmed" /\ currentState' = "confirmed") =>
          /\ currentState = "results"
          /\ selectedBreed # NullBreed
          /\ confirmedBreed' = selectedBreed]_vars
  /\ [][(currentState = "confirmed" /\ currentState' = "confirmed") =>
          confirmedBreed' = confirmedBreed]_vars
  /\ [][selectedBreed' # selectedBreed =>
          \/ /\ selectedBreed = NullBreed
             /\ currentState' = "results"
             /\ selectedBreed' = mockPredictions[1]
          \/ /\ currentState = "results" /\ currentState' = "results"
             /\ \E k \in 2..Len(mockPredictions) : selectedBreed' = mockPredictions[k]
          \/ /\ currentState = "results" /\ currentState' # "results"
             /\ selectedBreed' = NullBreed]_vars

\* the third prediction was clicked and confirmed
C21_Witness ==
  /\ currentState = "confirmed"
  /\ confirmedBreed = mockPredictions[3]

\* C22: while an analysis run goes on (the analysis screen stays and BreedAI
\* does not render again, which would start a new run), every update leaves
\* the progress shown within 0..100 and not below the value shown before.
C22_ProgressNeverDecreases ==
  [][(/\ LoadingMounted(currentState, capturedImage)
      /\ UNCHANGED <<currentState, capturedImage, confirmedBreed, toasts>>) =>
       /\ progress' \in 0..(100 * ProgressScale)
       /\ progress' >= progress]_vars

====
